---------------------------- MODULE Spec2Model ----------------------------
(***************************************************************************)
(* The per-frame agent update / steering / combat loop of dog-fight, in    *)
(* its three combat-relevant variants:                                     *)
(*   "sim"     src/simulation.js      (AIR/SEA/LAND domains, projectiles)  *)
(*   "sim333"  src/simulation_333.js  (immediate laser damage)             *)
(*   "sim3333" src/simulation_3333.js (instanced wing, cosmetic fire)      *)
(*                                                                         *)
(* Numbers.  three.js works on IEEE doubles; the model works on scaled     *)
(* integers in the plane z = 0:                                            *)
(*   positions and distances   in 1/PS of a world unit,                    *)
(*   velocities and directions in 1/VS (a unit vector has length VS),      *)
(*   f = dt * 60               in 1/FU (FU is one 60 fps frame),           *)
(*   blend factors             in 1/TS,                                    *)
(*   Math.random() draws       in 1/RS.                                    *)
(* Comparisons of distances are made on the squares, which is exact.       *)
(***************************************************************************)
EXTENDS Integers, Sequences, FiniteSets

PS == 2 * 5
VS == 10 * 100
FU == 9 * 10
TS == 100 * FU
RS == 10 * 100

----------------------------------------------------------------------------
(* Scalar helpers *)

Abs(n) == IF n < 0 THEN -n ELSE n

Sgn(n) == IF n < 0 THEN -1 ELSE IF n > 0 THEN 1 ELSE 0

\* a / b for b > 0, rounded to the nearest integer (ties away from zero)
RDiv(a, b) == Sgn(a) * ((2 * Abs(a) + b) \div (2 * b))

\* Newton's iteration for the integer square root of n: g is the current
\* guess and h the next one
RECURSIVE Newton(_, _, _)
Newton(n, g, h) == IF h >= g THEN g ELSE Newton(n, h, (h + n \div h) \div 2)

\* a first guess that is not below the square root of n
Seed(n) ==
    IF n < 100 THEN 10 ELSE IF n < 10000 THEN 100 ELSE IF n < 1000000 THEN 1000
    ELSE IF n < 100000000 THEN 10000 ELSE IF n < 2000000000 THEN 44722 ELSE n \div 2

FromSeed(n, g) == Newton(n, g, (g + n \div g) \div 2)

\* Math.sqrt on a non-negative integer, rounded down
Sqrt(n) == IF n <= 0 THEN 0 ELSE IF n < 4 THEN 1 ELSE FromSeed(n, Seed(n))

----------------------------------------------------------------------------
(* THREE.Vector3 restricted to the plane z = 0 *)

Vec(x, y) == [x |-> x, y |-> y]

Zero == Vec(0, 0)

add(a, b) == Vec(a.x + b.x, a.y + b.y)

sub(a, b) == Vec(a.x - b.x, a.y - b.y)

dot(a, b) == a.x * b.x + a.y * b.y

lengthSq(a) == dot(a, a)

length(a) == Sqrt(lengthSq(a))

distanceToSquared(a, b) == lengthSq(sub(a, b))

\* a.distanceTo(b) < r, with r in world units
Within(a, b, r) == distanceToSquared(a, b) < (r * PS) * (r * PS)

\* v.multiplyScalar(k / d)
scale(v, k, d) == Vec(RDiv(v.x * k, d), RDiv(v.y * k, d))

\* The factor by which a short vector is enlarged before its length is taken,
\* so that the integer square root keeps three digits
EnlargeBy(m) ==
    IF m < 30 THEN 1000 ELSE IF m < 300 THEN 100 ELSE IF m < 3000 THEN 10 ELSE 1

Enlarge(v) == EnlargeBy(IF Abs(v.x) > Abs(v.y) THEN Abs(v.x) ELSE Abs(v.y))

\* v.normalize() is v.divideScalar(v.length() || 1): the zero vector stays
\* zero, any other vector becomes a unit vector (length VS)
divideLength(w, l) == Vec(RDiv(w.x * VS, l), RDiv(w.y * VS, l))

unit(w) == divideLength(w, length(w))

enlarged(v, k) == Vec(v.x * k, v.y * k)

normalize(v) == IF v = Zero THEN Zero ELSE unit(enlarged(v, Enlarge(v)))

\* v.setLength(s) is v.normalize().multiplyScalar(s); s in 1/VS
setLength(v, s) == scale(normalize(v), s, VS)

\* a.lerp(b, t) is a + (b - a) * t; t in 1/TS
lerp(a, b, t) == Vec(a.x + RDiv((b.x - a.x) * t, TS), a.y + RDiv((b.y - a.y) * t, TS))

\* cos(a.angleTo(b)) in 1/VS.  angleTo returns PI/2 when either vector is zero.
cosAngle(a, b) ==
    IF a = Zero \/ b = Zero THEN 0
    ELSE RDiv(dot(normalize(a), normalize(b)), VS)

\* a.angleTo(b) < 0.4, that is cos > cos(0.4) = 0.92106
angleBelowCone(a, b) == cosAngle(a, b) > 921

\* p.add(v.clone().multiplyScalar(dt * 60)): v in 1/VS, f in 1/FU, p in 1/PS
move(p, v, f) == add(p, scale(v, f * PS, VS * FU))

----------------------------------------------------------------------------
(* Configuration *)

Teams == {"CYAN", "MAGENTA", "LIME"}

\* simulation.js CONFIG
worldSize == 1200

maxAgents == 80

CONFIG_teams ==
    [CYAN    |-> [type |-> "AIR",  hp |-> 50,  speed |-> 3000, range |-> 400],
     MAGENTA |-> [type |-> "SEA",  hp |-> 150, speed |-> 1200, range |-> 250],
     LIME    |-> [type |-> "LAND", hp |-> 200, speed |-> 0,    range |-> 500]]

\* simulation_3333.js CLASSES; speed in 1/VS, turnRate in 1/100, fireRate in 1/RS
CLASSES ==
    [INTERCEPTOR |-> [speed |-> 2500, turnRate |-> 8,  fireRate |-> 20],
     DREADNOUGHT |-> [speed |-> 600,  turnRate |-> 2,  fireRate |-> 80],
     VIPER       |-> [speed |-> 1800, turnRate |-> 12, fireRate |-> 40]]

\* simulation_333.js CONFIG; turn in 1/100
worldSize333 == 1000

maxAgents333 == 333

CONFIG333_teams ==
    [CYAN    |-> [hp |-> 60,  speed |-> 2800, turn |-> 9, dmg |-> 8],
     MAGENTA |-> [hp |-> 150, speed |-> 1200, turn |-> 3, dmg |-> 30],
     LIME    |-> [hp |-> 90,  speed |-> 2200, turn |-> 7, dmg |-> 12]]

----------------------------------------------------------------------------
(* Bounds and input sets *)

MaxFrames == 3

MaxShots == 2

MaxSpawns == 1

\* a position given in world units
P(x, y) == Vec(x * PS, y * PS)

\* f = dt * 60 of a frame after the first: one 60 fps frame, and a slow frame
\* of 50/9 frame times
DtSet == {FU, 500}

\* Math.random() draws, in 1/RS
RandSet == {0, 30, 900}

\* team tags that no CONFIG.teams has
UnknownTeams == {"GOLD"}

----------------------------------------------------------------------------
(* State *)

VARIABLES
    variant,      \* which script runs
    heap,         \* every Agent object ever constructed, by identity 1..Len
    agents,       \* Simulation.agents: the registry, a list of identities
    projectiles,  \* Simulation.projectiles (simulation.js)
    wing,         \* WingManager.agents (simulation_3333.js); the arrays of
                  \* SwarmManager, by index (part_000)
    scores,       \* Simulation.scores (simulation.js) / Simulation.kills (_333)
    pc,           \* position inside animate(): "idle", "agents", "projectiles";
                  \* "heading" and "done" around a single update (SpecHeading);
                  \* "flight" and "frame" in SpecProjectile
    idx,          \* position of the running forEach
    dt,           \* f = dt * 60 of the running frame
    frames,       \* frames completed
    shots,        \* shots fired so far
    spawns,       \* spawn requests so far
    killLog,      \* observation: the KillEvents, in order
    use,          \* observation: what the last Agent.update did with its target
    request,      \* observation: the team tag of the last spawn request
    clock,        \* Simulation.timeScale, .targetTimeScale, .matrixMode, and
                  \* whether the page has the element 'matrix-btn'
    meshes        \* WingManager.meshes / SwarmManager.meshMap: count of each
                  \* InstancedMesh, the counts of the running update, and the
                  \* instance indices that update has written

vars == <<variant, heap, agents, projectiles, wing, scores, pc, idx, dt, frames, shots,
          spawns, killLog, use, request, clock, meshes>>

NoUse == [agent |-> 0, target |-> 0, targetAlive |-> FALSE, acquired |-> FALSE,
          trial |-> FALSE, fired |-> FALSE, inRange |-> FALSE, inCone |-> FALSE,
          draw |-> 0, rate |-> 0, f |-> 0, stale |-> FALSE, nearest |-> FALSE,
          noEnemy |-> FALSE, desired |-> Zero, patrol |-> Zero, velocity0 |-> Zero]

\* the part of the state that damage changes
World == [heap |-> heap, scores |-> scores, killLog |-> killLog]

----------------------------------------------------------------------------
(* simulation_333.js: class Agent *)

\* constructor(scene, teamKey, position, velocity)
Agent333(teamKey, position, velocity) ==
    [team |-> teamKey, config |-> CONFIG333_teams[teamKey], alive |-> TRUE,
     hp |-> CONFIG333_teams[teamKey].hp,
     target |-> 0, position |-> position, velocity |-> velocity]

\* the loop of findTarget from list position i on, with bestTarget (0 is null)
RECURSIVE findTargetFrom(_, _, _, _, _)
findTargetFrom(h, list, self, i, bestTarget) ==
    IF i > Len(list) THEN bestTarget
    ELSE LET other == list[i]
             skip == other = self \/ ~h[other].alive \/ h[other].team = h[self].team
             d2 == distanceToSquared(h[self].position, h[other].position)
             closer == bestTarget = 0
                       \/ d2 < distanceToSquared(h[self].position, h[bestTarget].position)
         IN  IF ~skip /\ Within(h[self].position, h[other].position, 300) /\ closer
             THEN findTargetFrom(h, list, self, i + 1, other)
             ELSE findTargetFrom(h, list, self, i + 1, bestTarget)

findTarget333(h, list, self) == findTargetFrom(h, list, self, 1, 0)

\* Simulation.registerKill(attackerTeam, victimTeam): the KillEvent
\* {killerTeam, victimTeam} counted for the killer team
registerKill333(w, attackerTeam, victim, by) ==
    [w EXCEPT !.scores[attackerTeam] = @ + 1,
              !.killLog = Append(@, [victim |-> victim, by |-> by, credited |-> attackerTeam])]

\* an explode() of simulation_333.js that leaves the alive flag set
explode_keepAlive(w, id) == w

explode(w, id) == [w EXCEPT !.heap[id].alive = FALSE]

\* takeDamage that lets an agent live on with hp = 0
takeDamage333_below(w, id, amount, attackerTeam) ==
    LET w1 == [w EXCEPT !.heap[id].hp = @ - amount]
    IN  IF w1.heap[id].hp < 0 /\ w1.heap[id].alive
        THEN explode(registerKill333(w1, attackerTeam, id, attackerTeam), id)
        ELSE w1

\* takeDamage(amount, attackerTeam) on agent id
takeDamage333(w, id, amount, attackerTeam) ==
    LET w1 == [w EXCEPT !.heap[id].hp = @ - amount]
    IN  IF w1.heap[id].hp <= 0 /\ w1.heap[id].alive
        THEN explode(registerKill333(w1, attackerTeam, id, attackerTeam), id)
        ELSE w1

\* the target agent self holds from an earlier frame has died
staleTarget(h, self) == h[self].target # 0 /\ ~h[h[self].target].alive

\* no live enemy of self in the registry, closer than radius, is closer to self
\* than tgt is
isNearest(h, list, self, tgt, radius) ==
    \A i \in 1..Len(list) :
        (h[list[i]].alive /\ h[list[i]].team # h[self].team
         /\ Within(h[self].position, h[list[i]].position, radius))
        => distanceToSquared(h[self].position, h[tgt].position)
             <= distanceToSquared(h[self].position, h[list[i]].position)

\* self holds no live target and the registry has no live enemy of self closer
\* than radius
noEnemy(h, list, self, radius) ==
    /\ h[self].target = 0 \/ ~h[h[self].target].alive
    /\ \A i \in 1..Len(list) :
           ~(h[list[i]].alive /\ h[list[i]].team # h[self].team
             /\ Within(h[self].position, h[list[i]].position, radius))

\* the retargeting condition without the re-validation of a held target
needsTarget_unset(h, self) == h[self].target = 0

\* "if (!this.target || !this.target.alive)"
needsTarget(h, self) == h[self].target = 0 \/ ~h[h[self].target].alive

\* the fire-rate check of fire(dt): Math.random() < 0.05
fire333(r, f) == r < 50

\* "if (!this.target || !this.target.alive) this.target = this.findTarget(agents)"
retarget333(h, list, self) ==
    IF needsTarget(h, self) THEN findTarget333(h, list, self) ELSE h[self].target

\* "if (this.target && this.target.alive)"
engaged333(h, tgt) == tgt # 0 /\ h[tgt].alive

\* desiredDirection: towards the target's lead position, else back to the
\* centre when outside worldSize / 2, else straight on
desiredDirection333(h, self, tgt) ==
    IF engaged333(h, tgt)
    THEN normalize(sub(add(h[tgt].position, scale(h[tgt].velocity, 10 * PS, VS)),
                       h[self].position))
    ELSE IF lengthSq(h[self].position)
               > ((worldSize333 \div 2) * PS) * ((worldSize333 \div 2) * PS)
         THEN normalize(sub(Zero, h[self].position))
         ELSE normalize(h[self].velocity)

\* "dist < 150 && angle < 0.4": fire(dt) is called
trial333(h, self, tgt, desiredDirection) ==
    /\ engaged333(h, tgt)
    /\ Within(h[self].position, h[tgt].position, 150)
    /\ angleBelowCone(h[self].velocity, desiredDirection)

\* the physics step: the new velocity
steer333(a, desiredDirection, f) ==
    setLength(lerp(normalize(a.velocity), desiredDirection, a.config.turn * f),
              a.config.speed)

\* the fields update() assigns on agent self
moved333(w, self, tgt, velocity, position) ==
    [w EXCEPT !.heap[self].target = tgt,
              !.heap[self].velocity = velocity,
              !.heap[self].position = position]

\* the line of sight to the target lies inside the cone
aimed(h, self, tgt) ==
    angleBelowCone(h[self].velocity, sub(h[tgt].position, h[self].position))

outcome333(self, tgt, desiredDirection, trial, velocity, position) ==
    [miss |-> moved333(World, self, tgt, velocity, position),
     hit |-> IF trial
             THEN moved333(takeDamage333(World, tgt, heap[self].config.dmg,
                                         heap[self].team),
                           self, tgt, velocity, position)
             ELSE moved333(World, self, tgt, velocity, position),
     trial |-> trial,
     use |-> [agent |-> self, target |-> IF engaged333(heap, tgt) THEN tgt ELSE 0,
              targetAlive |-> engaged333(heap, tgt),
              acquired |-> needsTarget(heap, self),
              trial |-> trial, fired |-> FALSE,
              inRange |-> engaged333(heap, tgt)
                          /\ Within(heap[self].position, heap[tgt].position, 150),
              inCone |-> engaged333(heap, tgt) /\ aimed(heap, self, tgt),
              draw |-> 0, rate |-> 50, f |-> dt,
              stale |-> staleTarget(heap, self),
              nearest |-> tgt # 0 /\ isNearest(heap, agents, self, tgt, 300),
              noEnemy |-> noEnemy(heap, agents, self, 300),
              desired |-> desiredDirection,
              patrol |-> desiredDirection333(heap, self, 0),
              velocity0 |-> heap[self].velocity]]

physics333(self, f, tgt, desiredDirection, velocity) ==
    outcome333(self, tgt, desiredDirection, trial333(heap, self, tgt, desiredDirection),
               velocity,
               move(heap[self].position, velocity, f))

engage333(self, f, tgt, desiredDirection) ==
    physics333(self, f, tgt, desiredDirection, steer333(heap[self], desiredDirection, f))

acquire333(self, f, tgt) == engage333(self, f, tgt, desiredDirection333(heap, self, tgt))

\* what update(dt, agents) of agent self computes for f = dt * 60, up to the
\* draw of fire(dt): trial says that fire(dt) is called, hit is the state that
\* a successful draw leaves and miss the state that a failed one leaves
Update333(self, f) == acquire333(self, f, retarget333(heap, agents, self))

----------------------------------------------------------------------------
(* simulation.js: class Agent, class Projectile *)

\* constructor(scene, teamKey, sim); position is the random position of the
\* team's domain
Agent(teamKey, position) ==
    [team |-> teamKey, stats |-> CONFIG_teams[teamKey], alive |-> TRUE,
     hp |-> CONFIG_teams[teamKey].hp,
     target |-> 0, position |-> position,
     velocity |-> IF CONFIG_teams[teamKey].type = "AIR" THEN Vec(VS, 0)
                  ELSE IF CONFIG_teams[teamKey].type = "SEA" THEN Vec(VS \div 2, 0)
                  ELSE Zero]

\* "this.stats = CONFIG.teams[teamKey]; this.hp = this.stats.hp" does not
\* throw: the constructor returns an agent
constructs(teamKey) == teamKey \in DOMAIN CONFIG_teams

\* agents.find(a => a.alive && a.team !== this.team && distance < range),
\* from list position i on; 0 is undefined
RECURSIVE findFrom(_, _, _, _)
findFrom(h, list, self, i) ==
    IF i > Len(list) THEN 0
    ELSE LET a == list[i]
         IN  IF h[a].alive /\ h[a].team # h[self].team
                /\ Within(h[self].position, h[a].position, h[self].stats.range)
             THEN a
             ELSE findFrom(h, list, self, i + 1)

\* a find that leaves out the distance test: the first live enemy of the list
find_anyRange(h, list, self) ==
    LET hits == {i \in 1..Len(list) : h[list[i]].alive /\ h[list[i]].team # h[self].team}
    IN  IF hits = {} THEN 0 ELSE list[CHOOSE i \in hits : \A j \in hits : i <= j]

\* a find that leaves out the team test: the first live agent within range
find_anyTeam(h, list, self) ==
    LET hits == {i \in 1..Len(list) :
                    /\ h[list[i]].alive
                    /\ Within(h[self].position, h[list[i]].position, h[self].stats.range)}
    IN  IF hits = {} THEN 0 ELSE list[CHOOSE i \in hits : \A j \in hits : i <= j]

find(h, list, self) == findFrom(h, list, self, 1)

\* Projectile constructor(scene, start, target, type, color); color stands for
\* the team whose colour it is
Projectile(h, start, target, type, color) ==
    [pos |-> start, target |-> target, type |-> type, active |-> TRUE, color |-> color,
     vel |-> IF type = "BOMB" THEN Vec(0, -2 * VS)
             ELSE IF type = "TORPEDO"
                  THEN scale(normalize(sub(h[target].position, start)), 1500, VS)
                  ELSE scale(normalize(sub(h[target].position, start)), 8 * VS, VS)]

\* the weapon attack() chooses
weaponType(h, self) ==
    IF h[self].stats.type = "SEA" THEN "TORPEDO"
    ELSE IF h[self].stats.type = "AIR"
            /\ h[h[self].target].position.y < 10 * PS THEN "BOMB"
    ELSE "LASER"

\* Simulation.registerKill(team)
registerKill(w, team, victim, by) ==
    [w EXCEPT !.scores[team] = @ + 1,
              !.killLog = Append(@, [victim |-> victim, by |-> by, credited |-> team])]

\* an explode() that leaves the alive flag set
Agent_explode_keepAlive(w, id) == w

\* Agent.explode()
Agent_explode(w, id) == [w EXCEPT !.heap[id].alive = FALSE]

\* a takeDamage that also takes the damage off the agent's stat profile
takeDamage_wearsStats(w, id, amt, by) ==
    LET w1 == [w EXCEPT !.heap[id].hp = @ - amt, !.heap[id].stats.hp = @ - amt]
    IN  IF w1.heap[id].hp <= 0 /\ w1.heap[id].alive
        THEN Agent_explode(registerKill(w1, w1.heap[id].team, id, by), id)
        ELSE w1

\* takeDamage(amt, type) on agent id; by is the team the damage comes from
takeDamage(w, id, amt, by) ==
    LET w1 == [w EXCEPT !.heap[id].hp = @ - amt]
    IN  IF w1.heap[id].hp <= 0 /\ w1.heap[id].alive
        THEN Agent_explode(registerKill(w1, w1.heap[id].team, id, by), id)
        ELSE w1

\* the attack check: Math.random() < 0.02, a turret's < 0.04
attackDraw(type, r, f) == IF type = "LAND" THEN r < 40 ELSE r < 20

\* "if (!this.target || !this.target.alive) this.target = agents.find(...)"
retarget(h, list, self) ==
    IF needsTarget(h, self) THEN find(h, list, self) ELSE h[self].target

\* the patrol direction: back to the domain's centre when further than 500
\* from the origin, else straight on
patrol(a) ==
    IF lengthSq(a.position) > (500 * PS) * (500 * PS)
    THEN normalize(sub(Vec(0, IF a.stats.type = "AIR" THEN 150 * PS
                                 ELSE -100 * PS),
                       a.position))
    ELSE normalize(a.velocity)

\* the domain constraints: "desired.y += 1" (pull up), "desired.y -= 1" (dive)
constrain(a, desired) ==
    IF a.stats.type = "AIR" /\ a.position.y < 20 * PS
    THEN add(desired, Vec(0, VS))
    ELSE IF a.stats.type = "SEA" /\ a.position.y > -10 * PS
         THEN sub(desired, Vec(0, VS))
         ELSE desired

\* desired, as the steering reads it
desired(h, self, tgt) ==
    constrain(h[self], IF tgt # 0 THEN normalize(sub(h[tgt].position, h[self].position))
                       ELSE patrol(h[self]))

\* "this.velocity.clone().normalize().lerp(desired, 0.05).setLength(speed)"
steer(a, d) ==
    setLength(lerp(normalize(a.velocity), d, TS \div 20), a.stats.speed)

\* an update that puts every agent through the movement branch, a turret
\* with a velocity of 1 along x
moved_turretsToo(h, self, tgt, velocity, f) ==
    [h EXCEPT ![self].target = tgt,
              ![self].velocity = IF h[self].stats.type = "LAND" THEN Vec(VS, 0) ELSE velocity,
              ![self].position = move(@, IF h[self].stats.type = "LAND" THEN Vec(VS, 0)
                                         ELSE velocity, f)]

\* the fields update() assigns on agent self; a LAND turret keeps its velocity
\* and position
moved(h, self, tgt, velocity, f) ==
    IF h[self].stats.type = "LAND"
    THEN [h EXCEPT ![self].target = tgt]
    ELSE [h EXCEPT ![self].target = tgt,
                   ![self].velocity = velocity,
                   ![self].position = move(@, velocity, f)]

outcome(self, f, tgt, d, velocity) ==
    [heap |-> moved(heap, self, tgt, velocity, f),
     trial |-> tgt # 0,
     shot |-> IF tgt # 0
              THEN <<Projectile(heap, heap[self].position, tgt,
                                weaponType([heap EXCEPT ![self].target = tgt], self),
                                heap[self].team)>>
              ELSE <<>>,
     use |-> [agent |-> self, target |-> tgt,
              targetAlive |-> tgt # 0 /\ heap[tgt].alive,
              acquired |-> needsTarget(heap, self),
              trial |-> tgt # 0, fired |-> FALSE,
              inRange |-> tgt # 0 /\ Within(heap[self].position, heap[tgt].position,
                                            heap[self].stats.range),
              inCone |-> tgt # 0 /\ aimed(heap, self, tgt),
              draw |-> 0,
              rate |-> IF heap[self].stats.type = "LAND" THEN 40 ELSE 20,
              f |-> f,
              stale |-> staleTarget(heap, self),
              nearest |-> tgt # 0 /\ isNearest(heap, agents, self, tgt,
                                                heap[self].stats.range),
              noEnemy |-> noEnemy(heap, agents, self, heap[self].stats.range),
              desired |-> d,
              patrol |-> constrain(heap[self], patrol(heap[self])),
              velocity0 |-> heap[self].velocity]]

steered(self, f, tgt, d) == outcome(self, f, tgt, d, steer(heap[self], d))

acquire(self, f, tgt) == steered(self, f, tgt, desired(heap, self, tgt))

\* what update(dt, agents) of agent self computes for f = dt * 60, up to the
\* draw of the attack check: trial says that Math.random() is drawn, shot is
\* the projectile that attack() spawns on a successful draw
Update(self, f) == acquire(self, f, retarget(heap, agents, self))

\* the velocity Projectile.update(dt) leaves: gravity on a bomb, homing of a
\* torpedo whose target lives
Projectile_velocity(w, p, f) ==
    IF p.type = "BOMB" THEN Vec(p.vel.x, p.vel.y - RDiv(100 * f, FU))
    ELSE IF p.type = "TORPEDO" /\ w.heap[p.target].alive
         THEN lerp(p.vel, scale(normalize(sub(w.heap[p.target].position, p.pos)), 1500, VS),
                   TS \div 20)
         ELSE p.vel

\* the collision check: "target && target.alive && distance < 15"
collides(w, p, pos) ==
    w.heap[p.target].alive /\ Within(pos, w.heap[p.target].position, 15)

\* the bounds check: "pos.length() > CONFIG.worldSize"
outOfBounds(pos) == lengthSq(pos) > (worldSize * PS) * (worldSize * PS)

\* a projectile that stays in flight after it has hit
Projectile_moved_through(w, p, vel, pos, hit) ==
    [world |-> IF hit THEN takeDamage(w, p.target, 25, p.color) ELSE w,
     p |-> [p EXCEPT !.vel = vel, !.pos = pos, !.active = ~outOfBounds(pos)],
     hit |-> hit]

Projectile_moved(w, p, vel, pos, hit) ==
    [world |-> IF hit THEN takeDamage(w, p.target, 25, p.color) ELSE w,
     p |-> [p EXCEPT !.vel = vel, !.pos = pos, !.active = ~(hit \/ outOfBounds(pos))],
     hit |-> hit]

Projectile_step(w, p, vel, pos) == Projectile_moved(w, p, vel, pos, collides(w, p, pos))

Projectile_steer(w, p, f, vel) == Projectile_step(w, p, vel, move(p.pos, vel, f))

\* what Projectile.update(dt) of an active projectile p computes
Projectile_update(w, p, f) == Projectile_steer(w, p, f, Projectile_velocity(w, p, f))

----------------------------------------------------------------------------
(* simulation_3333.js: class WingManager *)

\* an entry of this.agents, as initAgents() pushes it
WingAgent(type, pos, vel) ==
    [type |-> type, alive |-> TRUE, pos |-> pos, vel |-> vel, targetPos |-> Zero]

\* "agent.pos.distanceToSquared(agent.targetPos) < 1000 || Math.random() < 0.01"
picksNewTarget(a, r) == distanceToSquared(a.pos, a.targetPos) < 1000 * PS * PS \/ r < 10

\* desired: "targetPos.clone().sub(pos).normalize().multiplyScalar(speed)"
desired3333(a, targetPos) ==
    scale(normalize(sub(targetPos, a.pos)), CLASSES[a.type].speed, VS)

\* steer: "desired.sub(agent.vel).multiplyScalar(turnRate)"
steer3333(a, d) == scale(sub(d, a.vel), CLASSES[a.type].turnRate, 100)

\* "agent.vel.add(steer).normalize().multiplyScalar(speed)"
velocity3333(a, st) == scale(normalize(add(a.vel, st)), CLASSES[a.type].speed, VS)

\* the combat check: "Math.random() < agent.type.fireRate * dt * 60"
fire3333(type, r, f) == r * FU < CLASSES[type].fireRate * f

moved3333(a, targetPos, vel, f) ==
    [a EXCEPT !.targetPos = targetPos, !.vel = vel, !.pos = move(@, vel, f)]

turn3333(a, targetPos, f, d) ==
    moved3333(a, targetPos, velocity3333(a, steer3333(a, d)), f)

\* the ship types, the keys of this.meshes
ShipTypes == DOMAIN CLASSES

\* this.meshes after the constructor: "new THREE.InstancedMesh(geo, mat, count)"
\* for each type, an InstancedMesh that holds count instances and draws count
NewMeshes(count) ==
    [capacity |-> count,
     count    |-> [t \in ShipTypes |-> count],
     counts   |-> [t \in ShipTypes |-> 0],
     written  |-> [t \in ShipTypes |-> {}]]

\* the scripts without instanced meshes
NoMeshes == NewMeshes(0)

\* an update(dt) that goes on counting where the last one stopped
resetCounts_kept(m) == m

\* update(dt): "const counts = { 0: 0, 1: 0, 2: 0 }"
resetCounts(m) ==
    [m EXCEPT !.counts = [t \in ShipTypes |-> 0], !.written = [t \in ShipTypes |-> {}]]

\* update(dt): "mesh.setMatrixAt(counts[agent.type.id], dummy.matrix);
\* counts[agent.type.id]++"
setMatrixAt(m, t) ==
    [m EXCEPT !.written[t] = @ \cup {m.counts[t]}, !.counts[t] = @ + 1]

\* update(dt): "this.meshes[k].count = counts[k]" for k = 0, 1, 2
updateGPU(m) == [m EXCEPT !.count = m.counts]

\* one pass of the loop of update(dt) over agent a, with the draw r of the
\* retargeting check and the random point p
WingUpdate(a, f, r, p) ==
    IF picksNewTarget(a, r) THEN turn3333(a, p, f, desired3333(a, p))
    ELSE turn3333(a, a.targetPos, f, desired3333(a, a.targetPos))

----------------------------------------------------------------------------
(* class Simulation: timeScale, targetTimeScale, matrixMode *)

\* CONFIG.baseSpeed and CONFIG.slowMoSpeed of each script, in 1/1000
CONFIG_speed ==
    [sim     |-> [baseSpeed |-> 1000, slowMoSpeed |-> 100],
     sim333  |-> [baseSpeed |-> 1000, slowMoSpeed |-> 100],
     sim3333 |-> [baseSpeed |-> 1000, slowMoSpeed |-> 100],
     part000 |-> [baseSpeed |-> 777,  slowMoSpeed |-> 25]]

\* the constructor: timeScale and targetTimeScale are CONFIG.baseSpeed;
\* matrixMode is false, but simulation.js leaves it unassigned (undefined)
NewClock(v, button) ==
    [timeScale       |-> CONFIG_speed[v].baseSpeed,
     targetTimeScale |-> CONFIG_speed[v].baseSpeed,
     matrixMode      |-> IF v = "sim" THEN "undefined" ELSE "false",
     button          |-> button]

\* JavaScript's "!m" and the truth of m in "m ? a : b" and "if (m)"
truthy(m) == m = "true"

not(m) == IF truthy(m) THEN "false" ELSE "true"

\* "this.matrixMode ? CONFIG.slowMoSpeed : CONFIG.baseSpeed"
speedOf(v, m) == IF truthy(m) THEN CONFIG_speed[v].slowMoSpeed ELSE CONFIG_speed[v].baseSpeed

\* a step of 1.1 times the distance to the target
tenth_beyond(d) == IF d >= 0 THEN (11 * d) \div 10 ELSE 0 - ((11 * (0 - d)) \div 10)

\* "d * 0.1", rounded to the nearest representable value
tenth(d) == IF d >= 0 THEN (d + 5) \div 10 ELSE 0 - ((5 - d) \div 10)

\* animate(): "this.timeScale += (this.targetTimeScale - this.timeScale) * 0.1"
eased(c) == [c EXCEPT !.timeScale = @ + tenth(c.targetTimeScale - c.timeScale)]

\* toggleMatrixMode().  simulation.js assigns matrixMode and targetTimeScale
\* and then writes to the button; simulation_3333.js assigns matrixMode,
\* then targetTimeScale, then writes to the button: without the button
\* both throw a TypeError after the assignments.  part_000 assigns
\* targetTimeScale only inside "if (btn)".
toggled(v, c) ==
    IF v = "part000" /\ ~c.button
    THEN [c EXCEPT !.matrixMode = not(@)]
    ELSE [c EXCEPT !.matrixMode = not(@), !.targetTimeScale = speedOf(v, not(c.matrixMode))]

----------------------------------------------------------------------------
(* Inputs of the spawners *)

\* simulation.js: the random positions of one batch, in spawn order.  AIR lies
\* in x -400..400, y 100..300; SEA in y -200..-20; a LAND turret sits on top
\* of an island, y = h - 18 with h in 50..150, x in -500..500.
AirLayouts == {<<P(-400, 110), P(-400, 100), P(0, 300), P(10, 300), P(0, 290)>>}

NavalLayouts == {<<P(-400, -20), P(0, -200), P(10, -200)>>}

GroundLayouts == {<<P(-395, 110), P(-395, 110), P(500, 32), P(500, 32)>>}

\* simulation_333.js: the agents the constructor's two formations (CYAN and
\* MAGENTA) create, as constructor arguments <<team, position, velocity>>
Scenarios333 ==
    { \* a MAGENTA pair closing in on a CYAN that flies away from them
      << <<"CYAN", P(0, 0), Vec(-2800, 0)>>, <<"MAGENTA", P(100, 0), Vec(-1200, 0)>>,
         <<"MAGENTA", P(120, 0), Vec(-1200, 0)>> >>,
      \* a CYAN closely behind a MAGENTA, both flying the same way
      << <<"MAGENTA", P(0, 0), Vec(1200, 0)>>, <<"CYAN", P(-5, 0), Vec(2800, 0)>> >>,
      \* a CYAN and a MAGENTA crossing, out of each other's cone
      << <<"CYAN", P(0, 0), Vec(0, 2800)>>, <<"MAGENTA", P(140, 20), Vec(0, -1200)>> >> }

\* the reinforcements of simulation_333.js
Reinforcements333 ==
    { <<"LIME", P(60, 0), Vec(-2200, 0)>>, <<"CYAN", P(400, 0), Vec(2800, 0)>> }

\* simulation_3333.js: the agents initAgents() creates, as <<type, pos, vel>>
Wings3333 ==
    { << <<"INTERCEPTOR", P(100, 0), Vec(2500, 0)>>, <<"DREADNOUGHT", P(-300, 50), Vec(0, 600)>> >>,
      << <<"VIPER", P(0, 20), Vec(0, -1800)>>, <<"INTERCEPTOR", P(-500, -200), Vec(-2500, 0)>> >> }

\* the random point an agent picks as its next targetPos
TargetPoints == {P(-400, 100)}

----------------------------------------------------------------------------
(* Initial state: the state the Simulation constructor has built when it *)
(* makes its closing call of animate()                                    *)

InitCommon ==
    /\ projectiles = <<>>
    /\ scores = [t \in Teams |-> 0]
    /\ pc = "idle" /\ idx = 0 /\ dt = 0
    /\ frames = 0 /\ shots = 0 /\ spawns = 0
    /\ killLog = <<>>
    /\ use = NoUse
    /\ request = ""

\* simulation.js: this.spawnAirWing()
InitSim ==
    /\ variant = "sim" /\ wing = <<>>
    /\ clock = NewClock("sim", TRUE) /\ meshes = NoMeshes
    /\ \E layout \in AirLayouts :
          heap = [i \in 1..Len(layout) |-> Agent("CYAN", layout[i])]
    /\ agents = [i \in 1..5 |-> i]

\* simulation_333.js: this.spawnFormation('CYAN'); this.spawnFormation('MAGENTA')
InitSim333 ==
    /\ variant = "sim333" /\ wing = <<>>
    /\ clock = NewClock("sim333", TRUE) /\ meshes = NoMeshes
    /\ \E sc \in Scenarios333 :
          /\ heap = [i \in 1..Len(sc) |-> Agent333(sc[i][1], sc[i][2], sc[i][3])]
          /\ agents = [i \in 1..Len(sc) |-> i]

\* simulation_3333.js: this.wing = new WingManager(this.scene, CONFIG.count)
InitSim3333 ==
    /\ variant = "sim3333" /\ heap = <<>> /\ agents = <<>>
    /\ clock = NewClock("sim3333", TRUE)
    /\ \E w \in Wings3333 :
          /\ wing = [i \in 1..Len(w) |-> WingAgent(w[i][1], w[i][2], w[i][3])]
          /\ meshes = NewMeshes(Len(w))

Init == InitCommon /\ (InitSim \/ InitSim333 \/ InitSim3333)

----------------------------------------------------------------------------
(* simulation.js: class Simulation *)

\* a filter that keeps every agent
isAlive_any(id) == TRUE

isAlive(id) == heap[id].alive

\* "this.clock.getDelta() * this.timeScale", times 60: THREE.Clock.getDelta()
\* starts the clock and returns 0 when it is called for the first time, which
\* is in the frame that the constructor's closing "this.animate()" runs.  The
\* frame time of the second frame is drawn from DtSet, and the later frames of
\* a run are taken to last as long as the second (a steady frame rate).
getDelta == IF frames = 0 THEN {0} ELSE IF frames = 1 THEN DtSet ELSE {dt}

isActive(p) == p.active

\* animate(), up to the start of agents.forEach; f is dt * 60
animate(f) ==
    /\ variant = "sim" /\ pc = "idle" /\ frames < MaxFrames
    /\ agents' = SelectSeq(agents, isAlive)
    /\ pc' = "agents" /\ idx' = 1 /\ dt' = f
    /\ UNCHANGED <<variant, clock, meshes, wing, heap, projectiles, scores, frames, shots, spawns, killLog, use, request>>

\* one callback of this.agents.forEach(a => a.update(dt, this.agents))
AgentUpdate ==
    /\ variant = "sim" /\ pc = "agents" /\ idx <= Len(agents)
    /\ idx' = idx + 1
    /\ IF ~heap[agents[idx]].alive
       THEN UNCHANGED <<heap, projectiles, shots, use>>
       ELSE \E u \in {Update(agents[idx], dt)}, r \in RandSet :
              \E fired \in {u.trial /\ attackDraw(heap[agents[idx]].stats.type, r, dt)} :
                /\ fired => shots < MaxShots
                /\ heap' = u.heap
                /\ projectiles' = IF fired THEN projectiles \o u.shot ELSE projectiles
                /\ shots' = IF fired THEN shots + 1 ELSE shots
                /\ use' = [u.use EXCEPT !.fired = fired,
                                        !.draw = IF u.trial THEN r ELSE 0]
    /\ UNCHANGED <<variant, clock, meshes, wing, agents, scores, pc, dt, frames, spawns, killLog, request>>

\* animate(), between the two forEach loops
animateProjectiles ==
    /\ variant = "sim" /\ pc = "agents" /\ idx > Len(agents)
    /\ projectiles' = SelectSeq(projectiles, isActive)
    /\ pc' = "projectiles" /\ idx' = 1
    /\ UNCHANGED <<variant, clock, meshes, wing, heap, agents, scores, dt, frames, shots, spawns, killLog, use, request>>

\* one callback of this.projectiles.forEach(p => p.update(dt))
ProjectileUpdate ==
    /\ variant = "sim" /\ pc = "projectiles" /\ idx <= Len(projectiles)
    /\ idx' = idx + 1
    /\ IF ~projectiles[idx].active
       THEN UNCHANGED <<heap, projectiles, scores, killLog>>
       ELSE \E u \in {Projectile_update(World, projectiles[idx], dt)} :
              /\ heap' = u.world.heap
              /\ scores' = u.world.scores
              /\ killLog' = u.world.killLog
              /\ projectiles' = [projectiles EXCEPT ![idx] = u.p]
    /\ UNCHANGED <<variant, clock, meshes, wing, agents, pc, dt, frames, shots, spawns, use, request>>

\* animate(), after the projectiles
animateDone ==
    /\ variant = "sim" /\ pc = "projectiles" /\ idx > Len(projectiles)
    /\ pc' = "idle" /\ idx' = 0 /\ frames' = frames + 1
    /\ UNCHANGED <<variant, clock, meshes, wing, heap, agents, projectiles, scores, dt, shots, spawns, killLog, use, request>>

\* spawnBatch(team, count), with the batch's random positions.  A button calls
\* it, after the constructor and so after the first frame.  When the team is
\* not in CONFIG.teams the first "new Agent" throws, before anything is pushed.
\* a spawnBatch that gives an unknown team tag the stats of CYAN
spawnBatch_defaulting(team, count, layout) ==
    /\ variant = "sim" /\ pc = "idle" /\ frames > 0 /\ spawns < MaxSpawns
    /\ spawns' = spawns + 1 /\ request' = team
    /\ IF Len(agents) >= maxAgents
       THEN UNCHANGED <<heap, agents>>
       ELSE /\ heap' = heap \o [i \in 1..count |->
                                   Agent(IF constructs(team) THEN team ELSE "CYAN", layout[i])]
            /\ agents' = agents \o [i \in 1..count |-> Len(heap) + i]
    /\ UNCHANGED <<variant, clock, meshes, wing, projectiles, scores, pc, idx, dt, frames, shots, killLog, use>>

spawnBatch(team, count, layout) ==
    /\ variant = "sim" /\ pc = "idle" /\ frames > 0 /\ spawns < MaxSpawns
    /\ spawns' = spawns + 1 /\ request' = team
    /\ IF Len(agents) >= maxAgents \/ ~constructs(team)
       THEN UNCHANGED <<heap, agents>>
       ELSE /\ heap' = heap \o [i \in 1..count |-> Agent(team, layout[i])]
            /\ agents' = agents \o [i \in 1..count |-> Len(heap) + i]
    /\ UNCHANGED <<variant, clock, meshes, wing, projectiles, scores, pc, idx, dt, frames, shots, killLog, use>>

spawnAirWing == \E layout \in AirLayouts : spawnBatch("CYAN", 5, layout)

spawnNavalFleet == \E layout \in NavalLayouts : spawnBatch("MAGENTA", 3, layout)

spawnGroundDefense == \E layout \in GroundLayouts : spawnBatch("LIME", 4, layout)

\* window.sim.spawnBatch(team, 1) with a team tag that CONFIG.teams does not have
spawnUnknown == \E team \in UnknownTeams : spawnBatch(team, 1, <<P(0, 150)>>)

----------------------------------------------------------------------------
(* simulation_333.js: class Simulation *)

\* animate(), up to the start of the agents' updates
animate333(f) ==
    /\ variant = "sim333" /\ pc = "idle" /\ frames < MaxFrames
    /\ agents' = SelectSeq(agents, isAlive)
    /\ pc' = "agents" /\ idx' = 1 /\ dt' = f
    /\ UNCHANGED <<variant, clock, meshes, wing, heap, projectiles, scores, frames, shots, spawns, killLog, use, request>>

\* an update(dt, agents) without "if (!this.alive) return"
AgentUpdate333_alsoDead ==
    /\ variant = "sim333" /\ pc = "agents" /\ idx <= Len(agents)
    /\ idx' = idx + 1
    /\ \E u \in {Update333(agents[idx], dt)}, r \in RandSet :
         \E fired \in {u.trial /\ fire333(r, dt)} :
            /\ fired => shots < MaxShots
            /\ heap' = IF fired THEN u.hit.heap ELSE u.miss.heap
            /\ scores' = IF fired THEN u.hit.scores ELSE u.miss.scores
            /\ killLog' = IF fired THEN u.hit.killLog ELSE u.miss.killLog
            /\ shots' = IF fired THEN shots + 1 ELSE shots
            /\ use' = [u.use EXCEPT !.fired = fired,
                                    !.draw = IF u.trial THEN r ELSE 0]
    /\ UNCHANGED <<variant, clock, meshes, wing, agents, projectiles, pc, dt, frames, spawns, request>>

\* one agent's update(dt, agents)
AgentUpdate333 ==
    /\ variant = "sim333" /\ pc = "agents" /\ idx <= Len(agents)
    /\ idx' = idx + 1
    /\ IF ~heap[agents[idx]].alive
       THEN UNCHANGED <<heap, scores, killLog, shots, use>>
       ELSE \E u \in {Update333(agents[idx], dt)}, r \in RandSet :
              \E fired \in {u.trial /\ fire333(r, dt)} :
                /\ fired => shots < MaxShots
                /\ heap' = IF fired THEN u.hit.heap ELSE u.miss.heap
                /\ scores' = IF fired THEN u.hit.scores ELSE u.miss.scores
                /\ killLog' = IF fired THEN u.hit.killLog ELSE u.miss.killLog
                /\ shots' = IF fired THEN shots + 1 ELSE shots
                /\ use' = [u.use EXCEPT !.fired = fired,
                                        !.draw = IF u.trial THEN r ELSE 0]
    /\ UNCHANGED <<variant, clock, meshes, wing, agents, projectiles, pc, dt, frames, spawns, request>>

\* animate(), after the agents
animateDone333 ==
    /\ variant = "sim333" /\ pc = "agents" /\ idx > Len(agents)
    /\ pc' = "idle" /\ idx' = 0 /\ frames' = frames + 1
    /\ UNCHANGED <<variant, clock, meshes, wing, heap, agents, projectiles, scores, dt, shots, spawns, killLog, use, request>>

\* registry.spawn(team, position, velocity): the registry's objects with the
\* new agent
spawn333(h, teamKey, position, velocity) == Append(h, Agent333(teamKey, position, velocity))

\* a reinforcement that hands out the object of a dead agent again
reinforce_recycle(teamKey, position, velocity) ==
    /\ variant = "sim333" /\ pc = "idle" /\ frames > 0 /\ spawns < MaxSpawns
    /\ spawns' = spawns + 1 /\ request' = teamKey
    /\ IF \E id \in DOMAIN heap : ~heap[id].alive
       THEN \E id \in {CHOOSE d \in DOMAIN heap : ~heap[d].alive} :
              /\ heap' = [heap EXCEPT ![id] = Agent333(teamKey, position, velocity)]
              /\ agents' = Append(agents, id)
       ELSE /\ heap' = spawn333(heap, teamKey, position, velocity)
            /\ agents' = Append(agents, Len(heap) + 1)
    /\ UNCHANGED <<variant, clock, meshes, wing, projectiles, scores, pc, idx, dt, frames, shots, killLog, use>>

\* the callback of the constructor's setInterval: the periodic reinforcement,
\* which comes after the constructor and so after the first frame
reinforce(teamKey, position, velocity) ==
    /\ variant = "sim333" /\ pc = "idle" /\ frames > 0 /\ spawns < MaxSpawns
    /\ spawns' = spawns + 1 /\ request' = teamKey
    /\ IF Len(agents) < maxAgents333
       THEN /\ heap' = spawn333(heap, teamKey, position, velocity)
            /\ agents' = Append(agents, Len(heap) + 1)
       ELSE UNCHANGED <<heap, agents>>
    /\ UNCHANGED <<variant, clock, meshes, wing, projectiles, scores, pc, idx, dt, frames, shots, killLog, use>>

----------------------------------------------------------------------------
(* simulation_3333.js: class Simulation *)

\* animate(), up to the call of this.wing.update(dt)
animate3333(f) ==
    /\ variant = "sim3333" /\ pc = "idle" /\ frames < MaxFrames
    /\ pc' = "agents" /\ idx' = 1 /\ dt' = f
    /\ meshes' = resetCounts(meshes)
    /\ UNCHANGED <<variant, clock, wing, heap, agents, projectiles, scores, frames, shots, spawns,
                   killLog, use, request>>

\* one pass of the loop of WingManager.update(dt)
AgentUpdate3333 ==
    /\ variant = "sim3333" /\ pc = "agents" /\ idx <= Len(wing)
    /\ idx' = idx + 1
    /\ IF ~wing[idx].alive
       THEN UNCHANGED <<wing, shots, use, meshes>>
       ELSE \E r1 \in RandSet, p \in TargetPoints, r2 \in RandSet :
              \E fired \in {fire3333(wing[idx].type, r2, dt)} :
                /\ fired => shots < MaxShots
                /\ wing' = [wing EXCEPT ![idx] = WingUpdate(@, dt, r1, p)]
                /\ meshes' = setMatrixAt(meshes, wing[idx].type)
                /\ shots' = IF fired THEN shots + 1 ELSE shots
                /\ use' = [NoUse EXCEPT !.agent = idx, !.trial = TRUE, !.fired = fired,
                                        !.draw = r2, !.f = dt,
                                        !.rate = CLASSES[wing[idx].type].fireRate]
    /\ UNCHANGED <<variant, clock, heap, agents, projectiles, scores, pc, dt, frames, spawns,
                   killLog, request>>

\* animate(), after this.wing.update(dt)
animateDone3333 ==
    /\ variant = "sim3333" /\ pc = "agents" /\ idx > Len(wing)
    /\ pc' = "idle" /\ idx' = 0 /\ frames' = frames + 1
    /\ meshes' = updateGPU(meshes)
    /\ UNCHANGED <<variant, clock, wing, heap, agents, projectiles, scores, dt, shots, spawns,
                   killLog, use, request>>

----------------------------------------------------------------------------
(* Specification *)

----------------------------------------------------------------------------
(* Agent.update as a function: one update of agent 1, from drawn inputs *)

\* f = dt * 60 of the update: one frame, and frames after a stall, for which
\* turn * dt * 60 reaches 0.5, 1 and 2 (turn 0.09)
HeadingDt == {FU, 500, 10 * 100, 20 * 100}

\* the velocities an agent of cruise speed s (1/VS) can have at the start of
\* an update: cruise speed along an axis, and zero, which a blend of two
\* opposite directions leaves
Velocities333(s) == {Vec(s, 0), Vec(0, -s), Zero}

\* the team that stands for the enemy of team t
Enemy(t) == IF t = "MAGENTA" THEN "CYAN" ELSE "MAGENTA"

\* where an agent of velocity v is when its lead position (position +
\* velocity * 10) is the point p
LeadsTo(p, v) == sub(p, scale(v, 10 * PS, VS))

\* the other agents of the registry, seen from an agent of team t at p: none,
\* an enemy whose lead position is p, an enemy ahead, and a dead enemy
Others333(t, p) ==
    LET e == Enemy(t)
        v == Vec(-CONFIG333_teams[e].speed, 0)
    IN  {<<>>,
         <<Agent333(e, LeadsTo(p, v), v)>>,
         <<Agent333(e, add(p, P(100, 40)), v)>>,
         <<[Agent333(e, add(p, P(100, 40)), v) EXCEPT !.alive = FALSE, !.hp = 0]>>}

\* simulation_333.js: agent 1 and the rest of the registry
Heading333 ==
    /\ variant = "sim333"
    /\ clock = NewClock("sim333", TRUE)
    /\ \E t \in Teams, p \in {P(0, 0), P(600, 0)} :
         \E v \in Velocities333(CONFIG333_teams[t].speed), o \in Others333(t, p) :
            /\ heap = <<Agent333(t, p, v)>> \o o
            /\ agents = [i \in 1..(1 + Len(o)) |-> i]

\* simulation.js: a jet or a submarine at cruise speed (agent 1), and the rest
\* of the registry: none, an enemy at the agent's own position, an enemy
\* inside the range
OthersSim(t, p) ==
    {<<>>, <<[Agent(Enemy(t), p) EXCEPT !.velocity = Vec(-VS, 0)]>>,
     <<Agent(Enemy(t), add(p, P(100, 40)))>>}

HeadingSim ==
    /\ variant = "sim"
    /\ clock = NewClock("sim", TRUE)
    /\ \E t \in {"CYAN", "MAGENTA"}, p \in {P(0, 60), P(0, -60), P(600, 0), P(510, 100)} :
         \E v \in {Vec(CONFIG_teams[t].speed, 0), Vec(0, -CONFIG_teams[t].speed)},
            o \in OthersSim(t, p) :
            /\ heap = <<[Agent(t, p) EXCEPT !.velocity = v]>> \o o
            /\ agents = [i \in 1..(1 + Len(o)) |-> i]

InitHeading ==
    /\ projectiles = <<>> /\ wing = <<>>
    /\ meshes = NoMeshes
    /\ scores = [t \in Teams |-> 0]
    /\ pc = "heading" /\ idx = 1 /\ dt \in HeadingDt
    /\ frames = 0 /\ shots = 0 /\ spawns = 0
    /\ killLog = <<>>
    /\ use = NoUse
    /\ request = ""
    /\ (Heading333 \/ HeadingSim)

\* simulation_333.js: agents[0].update(dt, agents)
HeadingUpdate333 ==
    /\ variant = "sim333" /\ pc = "heading"
    /\ pc' = "done"
    /\ \E u \in {Update333(agents[idx], dt)}, r \in RandSet :
         \E fired \in {u.trial /\ fire333(r, dt)} :
            /\ heap' = IF fired THEN u.hit.heap ELSE u.miss.heap
            /\ scores' = IF fired THEN u.hit.scores ELSE u.miss.scores
            /\ killLog' = IF fired THEN u.hit.killLog ELSE u.miss.killLog
            /\ shots' = IF fired THEN shots + 1 ELSE shots
            /\ use' = [u.use EXCEPT !.fired = fired,
                                    !.draw = IF u.trial THEN r ELSE 0]
    /\ UNCHANGED <<variant, clock, meshes, wing, agents, projectiles, idx, dt, frames, spawns, request>>

\* simulation.js: agents[0].update(dt, agents)
HeadingUpdate ==
    /\ variant = "sim" /\ pc = "heading"
    /\ pc' = "done"
    /\ \E u \in {Update(agents[idx], dt)}, r \in RandSet :
         \E fired \in {u.trial /\ attackDraw(heap[agents[idx]].stats.type, r, dt)} :
            /\ heap' = u.heap
            /\ projectiles' = IF fired THEN projectiles \o u.shot ELSE projectiles
            /\ shots' = IF fired THEN shots + 1 ELSE shots
            /\ use' = [u.use EXCEPT !.fired = fired,
                                    !.draw = IF u.trial THEN r ELSE 0]
    /\ UNCHANGED <<variant, clock, meshes, wing, agents, scores, idx, dt, frames, spawns, killLog, request>>

NextHeading == HeadingUpdate333 \/ HeadingUpdate

SpecHeading == InitHeading /\ [][NextHeading]_vars

----------------------------------------------------------------------------
(* simulation.js: the frames of one projectile in flight *)

\* A projectile in flight at its last live jet, which patrols: the other
\* agents have been destroyed, the submarine that fired (agent 2) included.
\* Each entry is <<f, jet position, jet velocity, projectile>>, with f = dt * 60
\* of the frames (6 * FU is dt = 0.1, ten frames per second).
Flights ==
    LET torpedo == [pos |-> Vec(-34, 3494), vel |-> Vec(-1307, -617), target |-> 1,
                    type |-> "TORPEDO", active |-> TRUE, color |-> "MAGENTA"]
        laser == [pos |-> Vec(-34, 3494), vel |-> Vec(-7200, -3487), target |-> 1,
                  type |-> "LASER", active |-> TRUE, color |-> "MAGENTA"]
        bomb == [pos |-> Vec(-34, 3494), vel |-> Vec(0, -2 * VS), target |-> 1,
                 type |-> "BOMB", active |-> TRUE, color |-> "MAGENTA"]
    IN  {<<6 * FU, Vec(-8970, 653), Vec(-1659, 2499), torpedo>>,
         <<6 * FU, Vec(-8970, 653), Vec(-1659, 2499), laser>>,
         <<FU, Vec(-8970, 653), Vec(-1659, 2499), bomb>>}

InitProjectile ==
    /\ variant = "sim" /\ wing = <<>>
    /\ clock = NewClock("sim", TRUE) /\ meshes = NoMeshes
    /\ scores = [t \in Teams |-> 0]
    /\ pc = "flight" /\ idx = 0
    /\ frames = 0 /\ shots = 0 /\ spawns = 0
    /\ killLog = <<>>
    /\ use = NoUse
    /\ request = ""
    /\ \E fl \in Flights :
         /\ dt = fl[1]
         /\ heap = <<[Agent("CYAN", fl[2]) EXCEPT !.velocity = fl[3]],
                     [Agent("MAGENTA", P(0, -100)) EXCEPT !.alive = FALSE, !.hp = 0]>>
         /\ agents = <<1>>
         /\ projectiles = <<fl[4]>>

\* animate(), up to agents.forEach, while the projectile is in flight; the
\* frames are not counted
FlightFrame ==
    /\ pc = "flight" /\ Len(agents) = 1 /\ heap[agents[1]].alive
    /\ Len(projectiles) = 1 /\ projectiles[1].active
    /\ pc' = "frame"
    /\ UNCHANGED <<variant, clock, meshes, wing, heap, agents, projectiles, scores, idx, dt, frames,
                   shots, spawns, killLog, use, request>>

\* the rest of animate() on a registry of one live agent and one active
\* projectile: the agent's update (it has no enemy, so it draws nothing),
\* then the projectile's
ProjectileFrame ==
    /\ pc = "frame"
    /\ pc' = "flight"
    /\ \E u \in {Update(agents[1], dt)} :
         \E v \in {Projectile_update([World EXCEPT !.heap = u.heap], projectiles[1], dt)} :
            /\ ~u.trial
            /\ heap' = v.world.heap
            /\ scores' = v.world.scores
            /\ killLog' = v.world.killLog
            /\ projectiles' = <<v.p>>
            /\ use' = u.use
    /\ UNCHANGED <<variant, clock, meshes, wing, agents, idx, dt, frames, shots, spawns, request>>

NextProjectile == FlightFrame \/ ProjectileFrame

\* a frame that has started runs to its end
FrameEnds == pc = "frame" /\ pc' = "flight"

\* requestAnimationFrame keeps the frames coming, and a frame that has
\* started runs to its end.  ProjectileFrame is the only step that leaves
\* pc = "frame" and is enabled wherever pc = "frame", so the second condition
\* is its weak fairness, stated on pc alone.
SpecProjectile ==
    InitProjectile /\ [][NextProjectile]_vars
    /\ WF_vars(FlightFrame) /\ WF_pc(FrameEnds)

----------------------------------------------------------------------------

Next ==
    \/ \E f \in getDelta : animate(f)
    \/ AgentUpdate
    \/ animateProjectiles
    \/ ProjectileUpdate
    \/ animateDone
    \/ spawnAirWing
    \/ spawnNavalFleet
    \/ spawnGroundDefense
    \/ spawnUnknown
    \/ \E f \in getDelta : animate333(f)
    \/ AgentUpdate333
    \/ animateDone333
    \/ \E a \in Reinforcements333 : reinforce(a[1], a[2], a[3])
    \/ \E f \in getDelta : animate3333(f)
    \/ AgentUpdate3333
    \/ animateDone3333

Spec == Init /\ [][Next]_vars

----------------------------------------------------------------------------
(* simulation.js with a registry close to CONFIG.maxAgents *)

\* a jet of the constructor's air wing after the constructor's frame, which has
\* dt = 0: it has its cruise velocity and has not moved
afterFirstFrame(a) == [a EXCEPT !.velocity = steer(a, constrain(a, patrol(a)))]

\* the jets of fifteen air wings: the constructor's, at the places of layout,
\* and those of fourteen later calls of spawnAirWing(), taken to be at one place
Crowd(layout) ==
    [i \in 1..75 |-> IF i <= 5 THEN afterFirstFrame(Agent("CYAN", layout[i]))
                     ELSE Agent("CYAN", P(0, 300))]

\* the registry after the constructor, fourteen calls of spawnAirWing() and
\* one call of spawnNavalFleet() or of spawnGroundDefense(): 78 or 79 agents
InitSpawn ==
    /\ variant = "sim" /\ wing = <<>>
    /\ clock = NewClock("sim", TRUE) /\ meshes = NoMeshes
    /\ projectiles = <<>>
    /\ scores = [t \in Teams |-> 0]
    /\ pc = "idle" /\ idx = 0 /\ dt = 0
    /\ frames = 1 /\ shots = 0 /\ spawns = 0
    /\ killLog = <<>>
    /\ use = NoUse
    /\ \E air \in AirLayouts, naval \in NavalLayouts, ground \in GroundLayouts :
          \/ /\ heap = Crowd(air) \o [i \in 1..3 |-> Agent("MAGENTA", naval[i])]
             /\ request = "MAGENTA"
          \/ /\ heap = Crowd(air) \o [i \in 1..4 |-> Agent("LIME", ground[i])]
             /\ request = "LIME"
    /\ agents = [i \in 1..Len(heap) |-> i]

NextSpawn ==
    \/ \E f \in getDelta : animate(f)
    \/ AgentUpdate
    \/ animateProjectiles
    \/ ProjectileUpdate
    \/ animateDone
    \/ spawnAirWing
    \/ spawnNavalFleet
    \/ spawnGroundDefense

SpecSpawn == InitSpawn /\ [][NextSpawn]_vars

----------------------------------------------------------------------------
(* simulation.js: a jet and a submarine in a long chase *)

\* frames of a chase
MaxDive == 18

\* a pair <<jet, submarine>> at places their constructors can draw, in range
\* of each other
Chases ==
    { <<P(0, 100), P(0, -100)>>, <<P(-400, 110), P(-400, -20)>> }

\* the constructor's jet after its frame, and a submarine that
\* spawnBatch('MAGENTA', ...) has then added
InitDomain ==
    /\ variant = "sim" /\ wing = <<>>
    /\ clock = NewClock("sim", TRUE) /\ meshes = NoMeshes
    /\ projectiles = <<>>
    /\ scores = [t \in Teams |-> 0]
    /\ pc = "idle" /\ idx = 0 /\ dt = 0
    /\ frames = 1 /\ shots = 0 /\ spawns = 0
    /\ killLog = <<>>
    /\ use = NoUse
    /\ request = "MAGENTA"
    /\ \E c \in Chases :
          heap = <<afterFirstFrame(Agent("CYAN", c[1])), Agent("MAGENTA", c[2])>>
    /\ agents = <<1, 2>>

\* animate(), up to the start of agents.forEach, in a chase
animateChase(f) ==
    /\ variant = "sim" /\ pc = "idle" /\ frames < MaxDive
    /\ agents' = SelectSeq(agents, isAlive)
    /\ pc' = "agents" /\ idx' = 1 /\ dt' = f
    /\ UNCHANGED <<variant, clock, meshes, wing, heap, projectiles, scores, frames, shots, spawns, killLog, use, request>>

NextDomain ==
    \/ \E f \in getDelta : animateChase(f)
    \/ AgentUpdate
    \/ animateProjectiles
    \/ ProjectileUpdate
    \/ animateDone

SpecDomain == InitDomain /\ [][NextDomain]_vars

----------------------------------------------------------------------------
(* part_000: class SwarmManager, and the instanced meshes of both scripts *)

\* SHIP_TYPES: speed in 1/VS, turn in 1/100
SHIP_TYPES ==
    [INTERCEPTOR |-> [speed |-> 3500, turn |-> 8],
     DREADNOUGHT |-> [speed |-> 800,  turn |-> 2],
     VIPER       |-> [speed |-> 2500, turn |-> 12]]

\* index i of types, positions, velocities, targets and alive, as initData()
\* and the constructor fill them: the target is the origin, alive is 1
SwarmEntry(type, pos, vel) ==
    [type |-> type, alive |-> TRUE, pos |-> pos, vel |-> vel, targetPos |-> Zero]

\* "_position.distanceToSquared(_target) < 4000"
swarmRetargets(a) == distanceToSquared(a.pos, a.targetPos) < 4000 * PS * PS

\* "_target.clone().sub(_position).normalize().multiplyScalar(speed)"; _target
\* was read before the new target was stored
swarmDesired(a) == scale(normalize(sub(a.targetPos, a.pos)), SHIP_TYPES[a.type].speed, VS)

\* "desired.sub(_velocity).multiplyScalar(turn)"
swarmSteer(a, d) == scale(sub(d, a.vel), SHIP_TYPES[a.type].turn, 100)

\* "_velocity.add(steer).normalize().multiplyScalar(speed)"
swarmVelocity(a, st) == scale(normalize(add(a.vel, st)), SHIP_TYPES[a.type].speed, VS)

swarmMoved(a, targetPos, vel, f) ==
    [a EXCEPT !.targetPos = targetPos, !.vel = vel, !.pos = move(@, vel, f)]

\* one pass of the loop of update(dt) over index i, with the random point p
SwarmUpdate(a, f, p) ==
    swarmMoved(a, IF swarmRetargets(a) THEN p ELSE a.targetPos,
               swarmVelocity(a, swarmSteer(a, swarmDesired(a))), f)

\* "Math.random() < 0.005": a laser
swarmFires(r) == r < 5

\* the swarms initData() creates, as <<type, position, velocity>>: the
\* velocity components lie in -1..1
Swarms ==
    { << <<"INTERCEPTOR", P(100, 0), Vec(900, 0)>>, <<"INTERCEPTOR", P(0, 30), Vec(0, -500)>>,
         <<"DREADNOUGHT", P(-300, 50), Vec(-200, 600)>> >>,
      << <<"VIPER", P(0, 20), Vec(0, -800)>>, <<"VIPER", P(-500, -200), Vec(500, 500)>>,
         <<"VIPER", P(40, 40), Vec(-100, 0)>> >> }

\* part_000: this.swarm = new SwarmManager(this.scene, CONFIG.initialCount)
InitSwarm ==
    /\ variant = "part000" /\ heap = <<>> /\ agents = <<>>
    /\ clock = NewClock("part000", TRUE)
    /\ \E w \in Swarms :
          /\ wing = [i \in 1..Len(w) |-> SwarmEntry(w[i][1], w[i][2], w[i][3])]
          /\ meshes = NewMeshes(Len(w))

InitMesh == InitCommon /\ (InitSim3333 \/ InitSwarm)

\* part_000 animate(), up to the call of this.swarm.update(dt)
animateSwarm(f) ==
    /\ variant = "part000" /\ pc = "idle" /\ frames < MaxFrames
    /\ pc' = "agents" /\ idx' = 1 /\ dt' = f
    /\ meshes' = resetCounts(meshes)
    /\ UNCHANGED <<variant, clock, wing, heap, agents, projectiles, scores, frames, shots,
                   spawns, killLog, use, request>>

\* one pass of the loop of SwarmManager.update(dt)
SwarmStep ==
    /\ variant = "part000" /\ pc = "agents" /\ idx <= Len(wing)
    /\ idx' = idx + 1
    /\ IF ~wing[idx].alive
       THEN UNCHANGED <<wing, shots, use, meshes>>
       ELSE \E p \in TargetPoints, r \in RandSet :
              /\ swarmFires(r) => shots < MaxShots
              /\ wing' = [wing EXCEPT ![idx] = SwarmUpdate(@, dt, p)]
              /\ meshes' = setMatrixAt(meshes, wing[idx].type)
              /\ shots' = IF swarmFires(r) THEN shots + 1 ELSE shots
              /\ use' = [NoUse EXCEPT !.agent = idx, !.trial = TRUE, !.fired = swarmFires(r),
                                      !.draw = r, !.f = dt]
    /\ UNCHANGED <<variant, clock, heap, agents, projectiles, scores, pc, dt, frames, spawns,
                   killLog, request>>

\* part_000 animate(), after this.swarm.update(dt)
animateSwarmDone ==
    /\ variant = "part000" /\ pc = "agents" /\ idx > Len(wing)
    /\ pc' = "idle" /\ idx' = 0 /\ frames' = frames + 1
    /\ meshes' = updateGPU(meshes)
    /\ UNCHANGED <<variant, clock, wing, heap, agents, projectiles, scores, dt, shots, spawns,
                   killLog, use, request>>

NextMesh ==
    \/ \E f \in getDelta : animate3333(f)
    \/ AgentUpdate3333
    \/ animateDone3333
    \/ \E f \in getDelta : animateSwarm(f)
    \/ SwarmStep
    \/ animateSwarmDone

SpecMesh == InitMesh /\ [][NextMesh]_vars

----------------------------------------------------------------------------
(* The time scale: frames and toggleMatrixMode() calls in simulation.js,  *)
(* simulation_3333.js and part_000                                        *)

\* clock.getDelta() * 60 of a frame, in 1/FU
Deltas == {0, FU, 500}

\* the scripts that have toggleMatrixMode() and animate()
Toggling == {"sim", "sim3333", "part000"}

\* the time fields after the constructor, on a page with or without the
\* element 'matrix-btn'; the agents are left out
InitMatrix ==
    /\ variant \in Toggling
    /\ \E button \in BOOLEAN : clock = NewClock(variant, button)
    /\ heap = <<>> /\ agents = <<>> /\ wing = <<>> /\ projectiles = <<>>
    /\ meshes = NoMeshes
    /\ scores = [t \in Teams |-> 0]
    /\ pc = "idle" /\ idx = 0 /\ dt = 0
    /\ frames = 0 /\ shots = 0 /\ spawns = 0
    /\ killLog = <<>>
    /\ use = NoUse
    /\ request = ""

\* animate(): "this.timeScale += ...; const dt = this.clock.getDelta() *
\* this.timeScale", the dt that is handed to the tick
animateClock(g) ==
    /\ pc = "idle"
    /\ clock' = eased(clock)
    /\ dt' = (g * clock'.timeScale) \div 1000
    /\ UNCHANGED <<variant, meshes, wing, heap, agents, projectiles, scores, pc, idx, frames,
                   shots, spawns, killLog, use, request>>

\* the click handler of the button, or a call from the console
toggleMatrixMode ==
    /\ pc = "idle"
    /\ clock' = toggled(variant, clock)
    /\ UNCHANGED <<variant, meshes, wing, heap, agents, projectiles, scores, pc, idx, dt,
                   frames, shots, spawns, killLog, use, request>>

NextMatrix ==
    \/ \E g \in Deltas : animateClock(g)
    \/ toggleMatrixMode

SpecMatrix == InitMatrix /\ [][NextMatrix]_vars

----------------------------------------------------------------------------
(* A frame in which the update of an agent throws *)

\* the list the running forEach / for-of loop goes through
registry == IF variant = "sim3333" THEN wing ELSE agents

\* The update of the agent at idx throws.  Neither animate() nor
\* WingManager.update has a try/catch: the exception leaves the loop and
\* animate(), and the frame is over.  The next frame was requested in the
\* first line of animate().  The update is taken to throw before it assigns.
\* (The animate() of simulation_333.js is not in the source.)
UpdateThrows ==
    /\ variant \in {"sim", "sim3333"}
    /\ pc = "agents" /\ idx <= Len(registry)
    /\ IF variant = "sim3333" THEN wing[idx].alive ELSE heap[agents[idx]].alive
    /\ pc' = "idle" /\ idx' = 0 /\ frames' = frames + 1
    /\ UNCHANGED <<variant, clock, meshes, wing, heap, agents, projectiles, scores, dt, shots, spawns,
                   killLog, use, request>>

NextFault == Next \/ UpdateThrows

SpecFault == Init /\ [][NextFault]_vars

----------------------------------------------------------------------------
(* Properties *)

\* C1: in every reachable state, every agent whose alive flag is true has
\* hp > 0
C1_AliveHasHp == \A id \in DOMAIN heap : heap[id].alive => heap[id].hp > 0

\* a projectile has hit an agent of simulation.js, which lives on with less
\* than its team's hp
C1_Witness ==
    /\ variant = "sim"
    /\ \E id \in DOMAIN heap :
          heap[id].alive /\ heap[id].hp > 0 /\ heap[id].hp < heap[id].stats.hp

\* C2: death is terminal: no step sets the alive flag of a dead agent back to
\* true
C2_DeathIsTerminal ==
    [][\A id \in DOMAIN heap : ~heap[id].alive => ~heap'[id].alive]_vars

\* an agent has died, the next frame has removed it from the registry and
\* has updated the agents that are left
C2_Witness ==
    /\ pc = "idle" /\ frames > 1 /\ agents # <<>>
    /\ \E id \in DOMAIN heap :
          ~heap[id].alive /\ \A i \in 1..Len(agents) : agents[i] # id

C4_KillCreditedToKiller ==
    \A k \in DOMAIN killLog : killLog[k].credited = killLog[k].by

\* C5: the target an agent uses in its update is unset or alive; a held target
\* that has died is re-resolved or cleared before it is used
C5_TargetValidWhenUsed == (use.agent # 0 /\ use.target # 0) => use.targetAlive

\* an agent whose held target had died has run its update
C5_Witness == use.agent # 0 /\ use.stale /\ (use.target = 0 \/ use.targetAlive)

\* C6: a target that is acquired is nearest among the live enemies inside the
\* detection radius
C6_AcquiresNearest ==
    (use.agent # 0 /\ use.acquired /\ use.target # 0) => use.nearest

\* C7: after the heading update of a frame with dt > 0 the speed of the agent
\* is its team's cruise speed, up to the rounding of the arithmetic
C7_CruiseSpeedKept ==
    (use.agent # 0 /\ use.f > 0 /\ variant \in {"sim", "sim333"})
    => Abs(length(heap[use.agent].velocity)
           - (IF variant = "sim" THEN heap[use.agent].stats.speed
              ELSE heap[use.agent].config.speed)) <= 3

\* C8: an agent fires only at a target that is alive, inside the engagement
\* range and inside the engagement cone
C8_FireOnlyWhenEngaged ==
    (use.fired /\ variant \in {"sim", "sim333"})
    => (use.targetAlive /\ use.inRange /\ use.inCone)

\* C9: for the same agent and the same random draw, the fire decision is the
\* same for every dt
C9_FireIndependentOfDt ==
    use.trial =>
      \A f1 \in DtSet, f2 \in DtSet :
         IF variant = "sim3333"
         THEN fire3333(wing[use.agent].type, use.draw, f1)
                = fire3333(wing[use.agent].type, use.draw, f2)
         ELSE IF variant = "sim333"
              THEN fire333(use.draw, f1) = fire333(use.draw, f2)
              ELSE attackDraw(heap[use.agent].stats.type, use.draw, f1)
                     = attackDraw(heap[use.agent].stats.type, use.draw, f2)

\* C10: in a frame with dt = 0 the fire check is still made and succeeds on a
\* draw below the fire rate
C10_ZeroDtStillFires ==
    (use.trial /\ use.f = 0 /\ use.draw < use.rate) => use.fired

\* C11: an agent that holds no live target and has no live enemy inside its
\* detection radius leaves target acquisition without a target, steers by the
\* patrol branch (a turret does not steer) and makes no fire attempt.
C11_NoEnemyPatrols ==
    (use.agent # 0 /\ use.noEnemy /\ variant \in {"sim", "sim333"})
    => /\ use.target = 0 /\ heap[use.agent].target = 0
       /\ ~use.trial /\ ~use.fired
       /\ use.desired = use.patrol

\* an agent patrols while a live enemy exists outside its detection radius
C11_Witness ==
    /\ use.agent # 0 /\ use.noEnemy /\ variant = "sim" /\ frames > 1
    /\ \E id \in DOMAIN heap : heap[id].alive /\ heap[id].team # heap[use.agent].team

\* the cruise speed of the agent the last update was for, in 1/VS
cruiseSpeed ==
    IF variant = "sim333" THEN heap[use.agent].config.speed
    ELSE heap[use.agent].stats.speed

\* the last update was the update of an agent that moves
movedAgent ==
    /\ use.agent # 0
    /\ \/ variant = "sim333"
       \/ variant = "sim" /\ heap[use.agent].stats.type # "LAND"

\* a and b point the same way, up to the rounding of the directions (the
\* cosine of the angle between them is at least 0.999)
sameDirection(a, b) == dot(normalize(a), normalize(b)) >= 999 * VS

\* C12: an agent whose velocity is exactly zero at the start of a tick leaves
\* the heading update with a velocity of cruise speed along the desired
\* direction, with a target and on patrol.
C12_ZeroVelocityRecovers ==
    (movedAgent /\ use.velocity0 = Zero)
    => /\ Abs(length(heap[use.agent].velocity) - cruiseSpeed) <= 3
       /\ sameDirection(heap[use.agent].velocity, use.desired)

\* C13: when the desired direction is the zero vector (the agent is on its
\* aim point), the heading after the update is the heading before it, for
\* every positive dt.
C13_DegenerateKeepsHeading ==
    (movedAgent /\ use.desired = Zero /\ use.velocity0 # Zero /\ use.f > 0)
    => sameDirection(heap[use.agent].velocity, use.velocity0)

\* C14: when the agents of a frame are about to be updated, the registry
\* holds no agent that was dead at the end of the frame before; and only dead
\* agents leave the registry: every live agent is in it.
C14_DeadAreRemoved ==
    /\ (pc = "agents" /\ idx = 1) => \A i \in 1..Len(agents) : heap[agents[i]].alive
    /\ \A id \in DOMAIN heap :
          heap[id].alive => \E i \in 1..Len(agents) : agents[i] = id

\* simulation.js: a frame starts after an agent died, and the registry has
\* lost the dead agent and kept the others
C14_Witness ==
    /\ variant = "sim" /\ pc = "agents" /\ idx = 1 /\ agents # <<>>
    /\ \E id \in DOMAIN heap :
          ~heap[id].alive /\ \A i \in 1..Len(agents) : agents[i] # id

\* C15: every projectile resolves after finitely many frames: it becomes
\* inactive, by a hit or by leaving the world.
C15_ProjectilesResolve == <>(\A i \in 1..Len(projectiles) : ~projectiles[i].active)

C17_FaultIsContained ==
    [][(pc = "agents" /\ pc' # "agents")
       => /\ idx > Len(registry)
          /\ variant = "sim" => pc' = "projectiles"]_vars

\* the stat profile an agent uses: this.stats (simulation.js), this.config
\* (simulation_333.js)
profile(a) == IF variant = "sim333" THEN a.config ELSE a.stats

\* the profile CONFIG.teams has for a team
teamProfile(t) == IF variant = "sim333" THEN CONFIG333_teams[t] ELSE CONFIG_teams[t]

\* C18: every agent ever constructed uses the stat profile CONFIG.teams has
\* for its team, after any frames, hits and spawns; two agents of one team
\* therefore use identical values.
C18_StatsShared == \A i \in 1..Len(heap) : profile(heap[i]) = teamProfile(heap[i].team)

\* two agents of one team, one of them hit and still alive, the other spawned
\* later, after at least two frames
C18_Witness ==
    /\ frames >= 2 /\ spawns > 0
    /\ \E i, j \in 1..Len(heap) :
          /\ i < j /\ heap[i].team = heap[j].team
          /\ heap[i].alive /\ heap[i].hp < profile(heap[i]).hp

\* the update of an agent of simulation.js attacks
attacks == variant = "sim" /\ pc = "agents" /\ shots' = shots + 1

\* the update of a live agent of simulation_333.js that does not hit
updates333 ==
    /\ variant = "sim333" /\ pc = "agents" /\ idx' = idx + 1
    /\ use'.agent = agents[idx] /\ heap[agents[idx]].alive /\ ~use'.fired

\* C19: the fire attempt of an update is evaluated on the agent's state after
\* the move: in simulation.js the projectile of an attack starts at the
\* position the agent has after its update, in simulation_333.js fire(dt) is
\* called exactly when the range and cone test holds for the moved agent.
C19_FireAfterMove ==
    [][/\ attacks => projectiles'[Len(projectiles')].pos = heap'[use'.agent].position
       /\ updates333 => use'.trial = trial333(heap', use'.agent, heap'[use'.agent].target,
                                              use'.desired)]_vars

\* C20: the registry never holds more than CONFIG.maxAgents agents.
C20_HardCap == variant = "sim" => Len(agents) <= maxAgents

\* C21: a jet is never below sea level and a submarine never above it.
C21_DomainsKept ==
    \A id \in 1..Len(heap) :
        variant = "sim" =>
            /\ heap[id].stats.type = "AIR" => heap[id].position.y >= 0
            /\ heap[id].stats.type = "SEA" => heap[id].position.y <= 0

\* the update of agent 1 as a function, for an agent that moves and has no
\* live enemy within its search radius
patrolStep == pc = "heading" /\ pc' = "done" /\ use'.noEnemy /\ heap[1].velocity # Zero

\* agent 1 is outside the patrol radius (500 in simulation.js, worldSize / 2
\* = 500 in simulation_333.js)
outsidePatrol == lengthSq(heap[1].position) > (500 * PS) * (500 * PS)

\* C22: an agent without a target steers toward the world origin when it is
\* outside the patrol radius; inside it, the desired direction is its velocity
\* direction and the update leaves its heading as it was.
C22_PatrolDirection ==
    [][patrolStep
       => IF outsidePatrol
          THEN sameDirection(use'.desired, sub(Zero, heap[1].position))
          ELSE /\ sameDirection(use'.desired, heap[1].velocity)
               /\ sameDirection(heap'[1].velocity, heap[1].velocity)]_vars

\* one callback of the agents' loop, for an agent of the registry that is dead
skipsDead ==
    /\ variant # "sim3333" /\ pc = "agents" /\ idx' = idx + 1
    /\ ~heap[agents[idx]].alive

isTurret(id) == variant = "sim" /\ heap[id].stats.type = "LAND"

\* C24: a turret is at rest, and no step changes its position or velocity.
C24_TurretsStay ==
    [][\A id \in DOMAIN heap :
          isTurret(id) => /\ heap[id].velocity = Zero
                          /\ heap'[id].position = heap[id].position
                          /\ heap'[id].velocity = heap[id].velocity]_vars

\* a turret has a target and has fired at it, and a later frame has begun
C24_Witness ==
    /\ variant = "sim" /\ pc = "agents"
    /\ \E id \in DOMAIN heap :
          /\ isTurret(id) /\ heap[id].target # 0
          /\ \E i \in 1..Len(projectiles) :
                projectiles[i].color = "LIME" /\ projectiles[i].pos # heap[id].position

\* C25: the target of an agent is another agent, of another team; a
\* projectile flies at an agent of another team than the one that launched it;
\* and no agent was destroyed by the fire of its own team.
C25_NoFriendlyFire ==
    /\ \A id \in DOMAIN heap :
          heap[id].target # 0
          => heap[id].target # id /\ heap[heap[id].target].team # heap[id].team
    /\ \A i \in 1..Len(projectiles) :
          heap[projectiles[i].target].team # projectiles[i].color
    /\ \A k \in 1..Len(killLog) : heap[killLog[k].victim].team # killLog[k].by

\* agents hold targets, and an agent has been destroyed by enemy fire
C25_Witness ==
    /\ killLog # <<>>
    /\ \E id \in DOMAIN heap : heap[id].alive /\ heap[id].target # 0

\* one callback of the projectiles' loop of simulation.js
projectileStep == variant = "sim" /\ pc = "projectiles" /\ idx' = idx + 1

\* the step takes hit points off an agent
damages == \E id \in DOMAIN heap : heap'[id].hp < heap[id].hp

victimsTurn ==
    /\ variant = "sim333" /\ pc = "agents" /\ idx' = idx + 1
    /\ \E k \in 1..Len(killLog) : killLog[k].victim = agents[idx]

\* C27: in simulation_333.js the update of an agent that was killed earlier in
\* the frame acquires nothing, moves nothing and fires nothing: targets,
\* positions, hit points, scores and kills stay as they were, and no update
\* is recorded for it.
C27_KilledSkipsTurn ==
    [][victimsTurn => UNCHANGED <<heap, scores, killLog, shots, use>>]_vars

\* the loop has just passed an agent that the last update that ran, of an
\* agent earlier in the list, had killed by its fire
C27_Witness ==
    /\ variant = "sim333" /\ pc = "agents" /\ idx >= 2
    /\ use.fired /\ use.target = agents[idx - 1] /\ use.agent # agents[idx - 1]
    /\ \E k \in 1..Len(killLog) : killLog[k].victim = agents[idx - 1]
    /\ \E i \in 1..(idx - 2) : agents[i] = use.agent

slowMoSpeed == CONFIG_speed[variant].slowMoSpeed

baseSpeed == CONFIG_speed[variant].baseSpeed

\* a step that leaves matrixMode and targetTimeScale alone: a frame
frameStep ==
    /\ clock'.matrixMode = clock.matrixMode
    /\ clock'.targetTimeScale = clock.targetTimeScale

\* b lies between a and c, ends included
between(a, b, c) == (a <= b /\ b <= c) \/ (c <= b /\ b <= a)

\* C28: after any sequence of frames and toggleMatrixMode() calls timeScale lies
\* in [CONFIG.slowMoSpeed, CONFIG.baseSpeed]; a frame leaves it between its
\* old value and targetTimeScale, and off its old value unless that was within
\* rounding of the target; the dt handed to the tick is never negative.
C28_TimeScaleEases ==
    [][/\ between(slowMoSpeed, clock'.timeScale, baseSpeed)
       /\ dt' >= 0
       /\ frameStep =>
            /\ between(clock.timeScale, clock'.timeScale, clock.targetTimeScale)
            /\ ~between(-4, clock.targetTimeScale - clock.timeScale, 4)
                 => clock'.timeScale # clock.timeScale]_vars

\* matrix mode was switched on and off again: timeScale is on its way back up
\* to CONFIG.baseSpeed, and a tick got a positive dt
C28_Witness ==
    /\ variant \in Toggling /\ ~truthy(clock.matrixMode)
    /\ clock.targetTimeScale = baseSpeed
    /\ slowMoSpeed < clock.timeScale /\ clock.timeScale < baseSpeed
    /\ dt > 0

\* C29: after any number of toggleMatrixMode() calls, with or without the
\* button, matrixMode is true exactly when targetTimeScale is
\* CONFIG.slowMoSpeed and not true exactly when it is CONFIG.baseSpeed.
C29_ModeMatchesTarget ==
    /\ truthy(clock.matrixMode) <=> clock.targetTimeScale = slowMoSpeed
    /\ ~truthy(clock.matrixMode) <=> clock.targetTimeScale = baseSpeed

\* the live agents of ship type t
aliveOf(t) == {i \in 1..Len(wing) : wing[i].alive /\ wing[i].type = t}

\* C30: in simulation_3333.js and part_000, after every update the count of
\* each type's mesh is the number of live agents of that type and the three
\* counts add up to the number of live agents; no update writes an instance
\* matrix at an index at or beyond the capacity the mesh was allocated with.
C30_CountsMatchAlive ==
    variant \in {"sim3333", "part000"} =>
        /\ (pc = "idle" /\ frames > 0) =>
              /\ \A t \in ShipTypes : meshes.count[t] = Cardinality(aliveOf(t))
              /\ meshes.count["INTERCEPTOR"] + meshes.count["DREADNOUGHT"] + meshes.count["VIPER"]
                   = Cardinality({i \in 1..Len(wing) : wing[i].alive})
        /\ \A t \in ShipTypes : \A k \in meshes.written[t] : k < meshes.capacity

\* the second update is over: a mesh draws two or more instances, another
\* none, and the update wrote the last index below a mesh's capacity
C30_Witness ==
    /\ variant \in {"sim3333", "part000"} /\ pc = "idle" /\ frames >= 2
    /\ \E t \in ShipTypes : meshes.count[t] >= 2
    /\ \E t \in ShipTypes : meshes.count[t] = 0
    /\ \E t \in ShipTypes : meshes.capacity - 1 \in meshes.written[t]

=============================================================================
